---- MODULE Spec2Model ----
(***************************************************************************)
(* Task lifecycle manager of the Sae A2A agent                             *)
(* (src/src/sae/services/task_manager.py): the task store, the state       *)
(* machine table, and the per-task subscriber queues.                      *)
(*                                                                         *)
(* The program runs on one asyncio event loop.  A coroutine is only        *)
(* interleaved with others where it really suspends.  The lock is never    *)
(* held across a suspension (Queue.put on an unbounded queue and           *)
(* _notify_subscribers do not suspend), so Lock.acquire always takes its   *)
(* fast path and every TaskManager call is one atomic step.  The only      *)
(* suspension points of subscribe() are its two yields and queue.get() on  *)
(* an empty queue; they are the positions recorded in pc.                  *)
(***************************************************************************)
EXTENDS Integers, Sequences, FiniteSets, TLC

\* ------------------------------------------------------------------ bounds
MaxMessages == 3     \* messages kept in all histories together (StoreSpec)
MaxArtifacts == 2    \* artifacts kept in all tasks together (StoreSpec)
StreamMessages == 2  \* messages kept in all histories together (Spec)
StreamArtifacts == 1 \* artifacts kept in all tasks together (Spec)
MaxQueue == 2        \* snapshots broadcast to one subscriber while it listens
MaxRuns == 3         \* tasks/send requests, each with its process_task run

\* ------------------------------------------------------------ input domains
TaskIds == {"t1", "t2"}
\* The task the subscribers of the model follow; the other task is there for
\* the commits that must not reach them.
Watched == {"t1"}
NoId == "None"
NoMsg == "None"
NoMetadata == "None"
EmptyMetadata == "{}"
AgentMsgs == {"a1"}
ArtifactNames == {"report"}
CallerIndex == {0, 5}
Reasons == {"r1"}
\* The queues that are alive at one time.
Chan == {1, 2}

\* ------------------------------------------------------------- a2a models
SUBMITTED == "submitted"
WORKING == "working"
INPUT_REQUIRED == "input-required"
COMPLETED == "completed"
FAILED == "failed"
CANCELED == "canceled"

TaskState == {SUBMITTED, WORKING, INPUT_REQUIRED, COMPLETED, FAILED, CANCELED}

TaskStatus(state, message) == [state |-> state, message |-> message]

Artifact(name, index) == [name |-> name, index |-> index]

Task(id, status, history, metadata) ==
    [id |-> id, status |-> status, artifacts |-> <<>>,
     history |-> history, metadata |-> metadata]

TaskResult(id, status, artifacts, metadata) ==
    [id |-> id, status |-> status, artifacts |-> artifacts, metadata |-> metadata]

\* ----------------------------------------------------------- task manager
\* Variants of the table: one edge short, and one that reopens a completed task.
VALID_TRANSITIONS_Short ==
    [s \in TaskState |->
        CASE s = SUBMITTED -> {WORKING, CANCELED, FAILED}
          [] s = WORKING -> {COMPLETED, FAILED, CANCELED}
          [] s = INPUT_REQUIRED -> {WORKING, CANCELED, FAILED}
          [] OTHER -> {}]

VALID_TRANSITIONS_Reopen ==
    [s \in TaskState |->
        CASE s = SUBMITTED -> {WORKING, CANCELED, FAILED}
          [] s = WORKING -> {COMPLETED, FAILED, CANCELED, INPUT_REQUIRED}
          [] s = INPUT_REQUIRED -> {WORKING, CANCELED, FAILED}
          [] s = COMPLETED -> {WORKING}
          [] OTHER -> {}]

\* Variant: a submitted task may be completed without having worked.
VALID_TRANSITIONS_Skip ==
    [s \in TaskState |->
        CASE s = SUBMITTED -> {WORKING, CANCELED, FAILED, COMPLETED}
          [] s = WORKING -> {COMPLETED, FAILED, CANCELED, INPUT_REQUIRED}
          [] s = INPUT_REQUIRED -> {WORKING, CANCELED, FAILED}
          [] OTHER -> {}]

VALID_TRANSITIONS ==
    [s \in TaskState |->
        CASE s = SUBMITTED -> {WORKING, CANCELED, FAILED}
          [] s = WORKING -> {COMPLETED, FAILED, CANCELED, INPUT_REQUIRED}
          [] s = INPUT_REQUIRED -> {WORKING, CANCELED, FAILED}
          [] s = COMPLETED -> {}
          [] s = FAILED -> {}
          [] s = CANCELED -> {}]

\* The states at which subscribe() stops streaming.
TerminalStates_NoCanceled == {COMPLETED, FAILED}

TerminalStates == {COMPLETED, FAILED, CANCELED}

CANCEL_MESSAGE == "Task was canceled by request."

FailMessage(error_message) == "Task failed: " \o error_message

VARIABLES
    tasks,        \* TaskManager._tasks: dict task id -> Task
    taskOrder,    \* insertion order of the keys of _tasks
    subscribers,  \* TaskManager._subscribers: dict task id -> list of queues
    queue,        \* contents of each asyncio.Queue created by subscribe()
    pc,           \* position of each subscribe() generator
    subTask,      \* task_id argument of each subscribe() generator
    yielded,      \* the results each generator has yielded so far
    expect,       \* what was committed on its task while a generator is registered
    submitted,    \* the messages the create_task calls passed, per task id
    lock,         \* TaskManager._lock: the coroutine that holds it
    runs          \* the process_task runs scheduled so far, in order

vars ==
    <<tasks, taskOrder, subscribers, queue, pc, subTask, yielded, expect, submitted,
      lock, runs>>

NoError == "None"
TaskNotFoundError == "TaskNotFoundError"
InvalidStateTransitionError == "InvalidStateTransitionError"

\* What a call leaves behind: the exception it raised, the task it returned,
\* and the manager's fields after it.
Return(store, order, subs, q, task_id) ==
    [raised |-> NoError, ret |-> task_id, tasks |-> store, taskOrder |-> order,
     subscribers |-> subs, queue |-> q]

Raise(error) ==
    [raised |-> error, ret |-> NoId, tasks |-> tasks, taskOrder |-> taskOrder,
     subscribers |-> subscribers, queue |-> queue]

\* Variant: the result is built without the artifacts.
_task_to_result_NoArtifacts(task) ==
    TaskResult(task.id, task.status, <<>>, task.metadata)

_task_to_result(task) ==
    TaskResult(task.id, task.status, task.artifacts, task.metadata)

\* asyncio.Queue() is made without a maxsize: it is unbounded.
maxsize == 0

\* Variant: the queue is made with room for one result.
full_Bounded(q) == Len(q) >= 1

\* Queue.full(): put() waits while it is true.
full(q) == maxsize > 0 /\ Len(q) >= maxsize

\* for queue in self._subscribers[task_id]: await queue.put(result)
RECURSIVE PutAll(_, _, _)
PutAll(q, queues, result) ==
    IF queues = <<>> THEN q
    ELSE PutAll([q EXCEPT ![Head(queues)] = Append(@, result)], Tail(queues), result)

\* Variant: the result is built from the task as it was before the commit.
_notify_subscribers_Stale(q, subs, store, task_id) ==
    IF task_id \notin DOMAIN subs THEN q
    ELSE PutAll(q, subs[task_id], _task_to_result(tasks[task_id]))

_notify_subscribers(q, subs, store, task_id) ==
    IF task_id \notin DOMAIN subs THEN q
    ELSE PutAll(q, subs[task_id], _task_to_result(store[task_id]))

\* dict[key] = value
Put(dict, key, value) ==
    [k \in DOMAIN dict \cup {key} |-> IF k = key THEN value ELSE dict[k]]

\* Variants: a re-submission that takes the new metadata, and one that stores
\* a fresh task over the existing one.
create_task_TakesMetadata(message, task_id, metadata, uuid) ==
    LET id == IF task_id = NoId THEN uuid ELSE task_id IN
    IF id \in DOMAIN tasks
    THEN Return([tasks EXCEPT ![id].history = Append(@, message),
                              ![id].metadata = metadata],
                taskOrder, subscribers, queue, id)
    ELSE Return(Put(tasks, id,
                    Task(id, TaskStatus(SUBMITTED, NoMsg), <<message>>, metadata)),
                Append(taskOrder, id), Put(subscribers, id, <<>>), queue, id)

create_task_Replace(message, task_id, metadata, uuid) ==
    LET id == IF task_id = NoId THEN uuid ELSE task_id IN
    Return(Put(tasks, id,
               Task(id, TaskStatus(SUBMITTED, NoMsg), <<message>>, metadata)),
           IF id \in DOMAIN tasks THEN taskOrder ELSE Append(taskOrder, id),
           Put(subscribers, id, <<>>), queue, id)

\* Variant: a new task gets no list in the registry.
create_task_NoSlot(message, task_id, metadata, uuid) ==
    LET id == IF task_id = NoId THEN uuid ELSE task_id IN
    IF id \in DOMAIN tasks
    THEN Return([tasks EXCEPT ![id].history = Append(@, message)],
                taskOrder, subscribers, queue, id)
    ELSE Return(Put(tasks, id,
                    Task(id, TaskStatus(SUBMITTED, NoMsg), <<message>>,
                         IF metadata \in {NoMetadata, EmptyMetadata}
                         THEN EmptyMetadata ELSE metadata)),
                Append(taskOrder, id), subscribers, queue, id)

\* Variant: the metadata is stored as it was passed.
OrEmpty_Raw(metadata) == metadata

\* metadata or {}
OrEmpty(metadata) ==
    IF metadata \in {NoMetadata, EmptyMetadata} THEN EmptyMetadata ELSE metadata

\* uuid is the value str(uuid4()) returns when task_id is None.
create_task(message, task_id, metadata, uuid) ==
    LET id == IF task_id = NoId THEN uuid ELSE task_id IN
    IF id \in DOMAIN tasks
    THEN Return([tasks EXCEPT ![id].history = Append(@, message)],
                taskOrder, subscribers, queue, id)
    ELSE Return(Put(tasks, id,
                    Task(id, TaskStatus(SUBMITTED, NoMsg), <<message>>,
                         OrEmpty(metadata))),
                Append(taskOrder, id), Put(subscribers, id, <<>>), queue, id)

get_task(task_id) ==
    IF task_id \notin DOMAIN tasks THEN Raise(TaskNotFoundError)
    ELSE Return(tasks, taskOrder, subscribers, queue, task_id)

\* Variant: the transition is applied without the table check.
update_status_Unchecked(task_id, state, message) ==
    IF task_id \notin DOMAIN tasks THEN Raise(TaskNotFoundError)
    ELSE
      LET task == tasks[task_id]
          updated == [task EXCEPT !.status = TaskStatus(state, message)]
          logged == IF message # NoMsg
                    THEN [updated EXCEPT !.history = Append(@, message)]
                    ELSE updated
          store == [tasks EXCEPT ![task_id] = logged]
      IN Return(store, taskOrder, subscribers,
                _notify_subscribers(queue, subscribers, store, task_id), task_id)

\* Variant: a status message starts the history over.
update_status_Rewrites(task_id, state, message) ==
    IF task_id \notin DOMAIN tasks THEN Raise(TaskNotFoundError)
    ELSE IF state \notin VALID_TRANSITIONS[tasks[task_id].status.state]
         THEN Raise(InvalidStateTransitionError)
         ELSE
           LET task == tasks[task_id]
               updated == [task EXCEPT !.status = TaskStatus(state, message)]
               logged == IF message # NoMsg
                         THEN [updated EXCEPT !.history = <<message>>]
                         ELSE updated
               store == [tasks EXCEPT ![task_id] = logged]
           IN Return(store, taskOrder, subscribers,
                     _notify_subscribers(queue, subscribers, store, task_id), task_id)

\* Variant: a transition without a message keeps the previous status message.
update_status_KeepsMessage(task_id, state, message) ==
    IF task_id \notin DOMAIN tasks THEN Raise(TaskNotFoundError)
    ELSE IF state \notin VALID_TRANSITIONS[tasks[task_id].status.state]
         THEN Raise(InvalidStateTransitionError)
         ELSE
           LET task == tasks[task_id]
               logged == IF message # NoMsg
                         THEN [task EXCEPT !.status = TaskStatus(state, message),
                                           !.history = Append(@, message)]
                         ELSE [task EXCEPT !.status.state = state]
               store == [tasks EXCEPT ![task_id] = logged]
           IN Return(store, taskOrder, subscribers,
                     _notify_subscribers(queue, subscribers, store, task_id), task_id)

update_status(task_id, state, message) ==
    IF task_id \notin DOMAIN tasks THEN Raise(TaskNotFoundError)
    ELSE
      LET task == tasks[task_id]
          current_state == task.status.state
      IN
      IF state \notin VALID_TRANSITIONS[current_state]
      THEN Raise(InvalidStateTransitionError)
      ELSE
        LET updated == [task EXCEPT !.status = TaskStatus(state, message)]
            logged == IF message # NoMsg
                      THEN [updated EXCEPT !.history = Append(@, message)]
                      ELSE updated
            store == [tasks EXCEPT ![task_id] = logged]
        IN Return(store, taskOrder, subscribers,
                  _notify_subscribers(queue, subscribers, store, task_id), task_id)

\* Variant: a task in a terminal state takes no artifact.
add_artifact_Guarded(task_id, artifact) ==
    IF task_id \notin DOMAIN tasks THEN Raise(TaskNotFoundError)
    ELSE IF tasks[task_id].status.state \in TerminalStates
         THEN Raise(InvalidStateTransitionError)
         ELSE
           LET task == tasks[task_id]
               indexed == [artifact EXCEPT !.index = Len(task.artifacts)]
               store == [tasks EXCEPT ![task_id].artifacts = Append(@, indexed)]
           IN Return(store, taskOrder, subscribers,
                     _notify_subscribers(queue, subscribers, store, task_id), task_id)

\* Variant: the artifact keeps the index the caller gave it.
add_artifact_KeepIndex(task_id, artifact) ==
    IF task_id \notin DOMAIN tasks THEN Raise(TaskNotFoundError)
    ELSE
      LET store == [tasks EXCEPT ![task_id].artifacts = Append(@, artifact)]
      IN Return(store, taskOrder, subscribers,
                _notify_subscribers(queue, subscribers, store, task_id), task_id)

\* artifact.index = len(task.artifacts) overwrites what the caller put there.
add_artifact(task_id, artifact) ==
    IF task_id \notin DOMAIN tasks THEN Raise(TaskNotFoundError)
    ELSE
      LET task == tasks[task_id]
          indexed == [artifact EXCEPT !.index = Len(task.artifacts)]
          store == [tasks EXCEPT ![task_id].artifacts = Append(@, indexed)]
      IN Return(store, taskOrder, subscribers,
                _notify_subscribers(queue, subscribers, store, task_id), task_id)

\* Variant: cancel writes the status without the table check.
cancel_task_Force(task_id) ==
    update_status_Unchecked(task_id, CANCELED, CANCEL_MESSAGE)

cancel_task(task_id) == update_status(task_id, CANCELED, CANCEL_MESSAGE)

fail_task(task_id, error_message) ==
    update_status(task_id, FAILED, FailMessage(error_message))

complete_task(task_id, message) == update_status(task_id, COMPLETED, message)

\* Variant: the limit is not applied.
Take_All(seq, limit) == seq

\* tasks[:limit] for limit >= 0
Take(seq, limit) == SubSeq(seq, 1, IF limit < Len(seq) THEN limit ELSE Len(seq))

RECURSIVE Filter(_, _)
Filter(ids, state) ==
    IF ids = <<>> THEN <<>>
    ELSE IF tasks[Head(ids)].status.state = state
         THEN <<Head(ids)>> \o Filter(Tail(ids), state)
         ELSE Filter(Tail(ids), state)

\* state is a TaskState or NoFilter; the result lists the ids of the tasks.
NoFilter == "None"
list_tasks(state, limit) ==
    Take(IF state # NoFilter THEN Filter(taskOrder, state) ELSE taskOrder, limit)

\* ---------------------------------------------------------------- JSON-RPC
METHOD_NOT_FOUND == -32601
TASK_NOT_FOUND == -32001
INVALID_STATE == -32002

\* JsonRpcResponse: error and result are empty or hold one value; manager is
\* what the request left of the task manager.
make_error_response(code, r) == [error |-> <<code>>, result |-> <<>>, manager |-> r]

make_success_response(result, r) ==
    [error |-> <<>>, result |-> <<result>>, manager |-> r]

handle_tasks_get(id) == get_task(id)

handle_tasks_cancel(id) == cancel_task(id)

\* Variant: a lifecycle error of the handler is answered with the task as it is.
handle_jsonrpc_Swallows(method, id) ==
    LET r == IF method = "tasks/get" THEN handle_tasks_get(id)
             ELSE handle_tasks_cancel(id)
    IN
    IF method \notin {"tasks/get", "tasks/cancel"}
    THEN make_error_response(METHOD_NOT_FOUND, Raise(NoError))
    ELSE IF r.raised = TaskNotFoundError
         THEN make_error_response(TASK_NOT_FOUND, r)
         ELSE make_success_response(
                  [id |-> id, state |-> r.tasks[id].status.state], r)

\* handle_jsonrpc for a well-formed request of tasks/get, tasks/cancel or a
\* method without a handler; the result holds the task's id and state.
handle_jsonrpc(method, id) ==
    LET r == IF method = "tasks/get" THEN handle_tasks_get(id)
             ELSE handle_tasks_cancel(id)
    IN
    IF method \notin {"tasks/get", "tasks/cancel"}
    THEN make_error_response(METHOD_NOT_FOUND, Raise(NoError))
    ELSE IF r.raised = TaskNotFoundError
         THEN make_error_response(TASK_NOT_FOUND, r)
         ELSE IF r.raised = InvalidStateTransitionError
              THEN make_error_response(INVALID_STATE, r)
              ELSE make_success_response(
                       [id |-> r.ret, state |-> r.tasks[r.ret].status.state], r)

\* ------------------------------------------------------------- the lock
Free == "None"
Caller == "caller"

\* Variant: the lock is still held when the block is left.
Release_Keeps(owner) == owner

\* __aexit__ of `async with self._lock`.
Release(owner) == Free

\* async with self._lock: <a block without a suspension point>.  acquire()
\* returns at once when nobody holds the lock and waits otherwise.
WithLock(owner) == lock = Free /\ lock' = Release(owner)

\* ------------------------------------------------------------ subscribe()
\* A generator holds a queue in the registry from its registration to its
\* finally block.
Active(c) == pc[c] \in {"boot", "wait", "item", "away"}

Listening(task_id) == {c \in Chan : Active(c) /\ subTask[c] = task_id}

\* What a commit leaves of a task for its readers.
Committed(task) ==
    [id |-> task.id, status |-> task.status, artifacts |-> task.artifacts,
     metadata |-> task.metadata]

\* The commits made on its task while a generator is registered.
Commit(task_id, task) ==
    [c \in Chan |->
        IF c \in Listening(task_id) THEN Append(expect[c], Committed(task))
        ELSE expect[c]]

\* Room for one more broadcast in the model.
QueueRoom(task_id) == \A c \in Listening(task_id) : Len(expect[c]) < MaxQueue

\* Variant: the finally block empties the task's list.
RECURSIVE remove_All(_, _)
remove_All(list, x) ==
    IF list = <<>> THEN <<>> ELSE remove_All(Tail(list), x)

\* list.remove(x): the first occurrence goes.
RECURSIVE remove(_, _)
remove(list, x) ==
    IF list = <<>> THEN <<>>
    ELSE IF Head(list) = x THEN Tail(list)
         ELSE <<Head(list)>> \o remove(Tail(list), x)

\* What the store holds, for the bounds of the model.
RECURSIVE Total(_, _)
Total(ids, field) ==
    IF ids = <<>> THEN 0
    ELSE Len(tasks[Head(ids)][field]) + Total(Tail(ids), field)

Init ==
    /\ tasks = <<>>
    /\ taskOrder = <<>>
    /\ subscribers = <<>>
    /\ queue = [c \in Chan |-> <<>>]
    /\ pc = [c \in Chan |-> "start"]
    /\ subTask = [c \in Chan |-> NoId]
    /\ yielded = [c \in Chan |-> <<>>]
    /\ expect = [c \in Chan |-> <<>>]
    /\ submitted = <<>>
    /\ lock = Free
    /\ runs = <<>>

\* The manager after a call.
Apply(r) ==
    /\ tasks' = r.tasks
    /\ taskOrder' = r.taskOrder
    /\ subscribers' = r.subscribers
    /\ queue' = r.queue

CreateTask(message, task_id, metadata, maxMessages) ==
    \E uuid \in (IF task_id = NoId THEN TaskIds \ DOMAIN tasks ELSE {NoId}) :
        /\ Total(taskOrder, "history") < maxMessages
        /\ WithLock(Caller)
        /\ Apply(create_task(message, task_id, metadata, uuid))
        /\ LET id == IF task_id = NoId THEN uuid ELSE task_id IN
           submitted' = Put(submitted, id,
                            IF id \in DOMAIN submitted
                            THEN Append(submitted[id], message) ELSE <<message>>)
        /\ UNCHANGED <<pc, subTask, yielded, expect, runs>>

GetTask(task_id) ==
    /\ Apply(get_task(task_id))
    /\ UNCHANGED <<pc, subTask, yielded, expect, submitted, lock, runs>>

\* queue.put(result) returns at once on every queue of the task.
CanPut(task_id) ==
    task_id \in DOMAIN subscribers =>
        \A i \in 1..Len(subscribers[task_id]) : ~full(queue[subscribers[task_id][i]])

\* A committed mutation of task_id is recorded for the registered generators.
Call(task_id, r) ==
    /\ WithLock(Caller)
    /\ r.raised = NoError => CanPut(task_id)
    /\ Apply(r)
    /\ expect' = IF r.raised = NoError THEN Commit(task_id, r.tasks[task_id])
                 ELSE expect
    /\ UNCHANGED <<pc, subTask, yielded, submitted>>

\* A call of a client or of a test on the manager.
Mutate(task_id, r) == Call(task_id, r) /\ UNCHANGED runs

UpdateStatus(task_id, state, message, maxMessages) ==
    /\ task_id \in DOMAIN tasks =>
          /\ QueueRoom(task_id)
          /\ message # NoMsg => Total(taskOrder, "history") < maxMessages
    /\ Mutate(task_id, update_status(task_id, state, message))

AddArtifact(task_id, artifact, maxArtifacts) ==
    /\ task_id \in DOMAIN tasks =>
          /\ QueueRoom(task_id)
          /\ Total(taskOrder, "artifacts") < maxArtifacts
    /\ Mutate(task_id, add_artifact(task_id, artifact))

CancelTask(task_id, maxMessages) ==
    /\ task_id \in DOMAIN tasks =>
          QueueRoom(task_id) /\ Total(taskOrder, "history") < maxMessages
    /\ Mutate(task_id, cancel_task(task_id))

FailTask(task_id, error_message, maxMessages) ==
    /\ task_id \in DOMAIN tasks =>
          QueueRoom(task_id) /\ Total(taskOrder, "history") < maxMessages
    /\ Mutate(task_id, fail_task(task_id, error_message))

CompleteTask(task_id, message, maxMessages) ==
    /\ task_id \in DOMAIN tasks =>
          /\ QueueRoom(task_id)
          /\ message # NoMsg => Total(taskOrder, "history") < maxMessages
    /\ Mutate(task_id, complete_task(task_id, message))

\* Variant: the queue is registered without looking the task up.
subscribe_Registers(task_id, c) ==
    Return(tasks, taskOrder,
           Put(subscribers, task_id,
               IF task_id \in DOMAIN subscribers
               THEN Append(subscribers[task_id], c) ELSE <<c>>),
           queue, task_id)

\* subscribe(task_id) from its start to the registration of its queue c.
subscribe(task_id, c) ==
    IF task_id \notin DOMAIN tasks THEN Raise(TaskNotFoundError)
    ELSE Return(tasks, taskOrder,
                [subscribers EXCEPT ![task_id] = Append(@, c)], queue, task_id)

\* list_tasks reads the store and writes nothing.
ListTasks(state, limit) ==
    LET ret == list_tasks(state, limit) IN
    ret = ret /\ UNCHANGED vars

\* One request to the /a2a endpoint.
HandleJsonrpc(method, id, maxMessages) ==
    LET response == handle_jsonrpc(method, id) IN
    IF method = "tasks/cancel"
    THEN /\ id \in DOMAIN tasks =>
               QueueRoom(id) /\ Total(taskOrder, "history") < maxMessages
         /\ Mutate(id, response.manager)
    ELSE /\ Apply(response.manager)
         /\ UNCHANGED <<pc, subTask, yielded, expect, submitted, lock, runs>>

\* First __anext__ of subscribe(task_id): the check, the registration under the
\* lock and the first yield happen without a suspension in between.  The queue
\* it creates is the lowest one that is not alive.
Subscribe(task_id) ==
    \E c \in Chan :
        /\ pc[c] = "start"
        /\ \A d \in Chan : d < c => pc[d] # "start"
        /\ LET r == subscribe(task_id, c) IN
           IF r.raised # NoError
           THEN UNCHANGED vars
           ELSE /\ WithLock(c)
                /\ subscribers' = r.subscribers
                /\ yielded' = [yielded EXCEPT ![c] = <<_task_to_result(tasks[task_id])>>]
                /\ pc' = [pc EXCEPT ![c] = "boot"]
                /\ subTask' = [subTask EXCEPT ![c] = task_id]
                /\ UNCHANGED <<tasks, taskOrder, queue, expect, submitted, runs>>

\* result = await queue.get(); yield result
GetAndYield(c) ==
    /\ queue' = [queue EXCEPT ![c] = Tail(@)]
    /\ yielded' = [yielded EXCEPT ![c] = Append(@, Head(queue[c]))]
    /\ pc' = [pc EXCEPT ![c] = "item"]
    /\ UNCHANGED <<subscribers, subTask, expect, lock>>

\* finally: self._subscribers[task_id].remove(queue).  The generator is over
\* and its queue is garbage: the model forgets both.
Finally(c) ==
    /\ WithLock(c)
    /\ subscribers' = IF subTask[c] \in DOMAIN subscribers
                      THEN [subscribers EXCEPT ![subTask[c]] = remove(@, c)]
                      ELSE subscribers
    /\ pc' = [pc EXCEPT ![c] = "start"]
    /\ subTask' = [subTask EXCEPT ![c] = NoId]
    /\ queue' = [queue EXCEPT ![c] = <<>>]
    /\ yielded' = [yielded EXCEPT ![c] = <<>>]
    /\ expect' = [expect EXCEPT ![c] = <<>>]

\* The last result a generator yielded.
LastYielded(c) == yielded[c][Len(yielded[c])]

\* The consumer asks a generator suspended at a yield for its next result.
Anext(c) ==
    /\ pc[c] \in {"boot", "item"}
    /\ IF pc[c] = "item" /\ LastYielded(c).status.state \in TerminalStates
       THEN Finally(c)
       ELSE IF queue[c] # <<>>
            THEN GetAndYield(c)
            ELSE /\ pc' = [pc EXCEPT ![c] = "wait"]
                 /\ UNCHANGED <<subscribers, queue, subTask, yielded, expect, lock>>
    /\ UNCHANGED <<tasks, taskOrder, submitted, runs>>

\* A generator suspended in queue.get() resumes once the queue holds a result.
Wake(c) ==
    /\ pc[c] = "wait"
    /\ queue[c] # <<>>
    /\ GetAndYield(c)
    /\ UNCHANGED <<tasks, taskOrder, submitted, runs>>

\* The consumer closes or cancels a suspended generator.
Aclose(c) ==
    /\ Active(c)
    /\ Finally(c)
    /\ UNCHANGED <<tasks, taskOrder, submitted, runs>>

\* The consumer keeps a generator suspended at a yield and never asks it for
\* another result: nothing resumes the generator, so nothing runs its finally
\* block until the consumer closes it.
WalkAway(c) ==
    /\ pc[c] \in {"boot", "item"}
    /\ pc' = [pc EXCEPT ![c] = "away"]
    /\ UNCHANGED <<tasks, taskOrder, subscribers, queue, subTask, yielded,
                   expect, submitted, lock, runs>>

\* ------------------------------------------------ tasks/send, process_task
\* handle_tasks_send: the task is created or found, then process_task(task.id)
\* is scheduled to run after the response.
handle_tasks_send(message, id, metadata, uuid) ==
    create_task(message, id, metadata, uuid)

\* What one run finds between its first suspension and its next call on the
\* manager: a file that does not parse, no text at all, an analysis whose
\* result has success == False, an exception of the pipeline, or an analysis.
Failures == {"parse_error", "empty", "failed", "raised"}
Outcomes == Failures \cup {"success"}

\* str(e)
Str(error) == "str(" \o error \o ")"

\* The error message process_task passes to fail_task itself.
Reason(outcome) ==
    CASE outcome = "parse_error" -> "Failed to parse uploaded file: " \o Str("e")
      [] outcome = "empty" -> "No contract text provided"
      [] outcome = "failed" -> "Analysis failed"

ANALYSIS == Artifact("contract_analysis", 0)
SUMMARY == "analysis.summary"

\* Variant: the exception is logged and the task is left as it is.
on_exception_Logs(task_id, error) == Raise(error)

\* except Exception as e: await task_manager.fail_task(task_id, str(e))
on_exception(task_id, error) == fail_task(task_id, Str(error))

\* A call inside the try block.  A call that raises has changed nothing, so
\* the handler finds the manager as the call found it.
Handled(task_id, r) ==
    IF r.raised = NoError THEN r ELSE on_exception(task_id, r.raised)

\* Variant: the task is completed first and the artifact is added after.
deliver_CompleteFirst(task_id, step) ==
    IF step = 1 THEN complete_task(task_id, SUMMARY)
    ELSE add_artifact(task_id, ANALYSIS)

\* The two calls that deliver an analysis, in their order.
deliver(task_id, step) ==
    IF step = 1 THEN add_artifact(task_id, ANALYSIS)
    ELSE complete_task(task_id, SUMMARY)

\* Variant: a run that finds no contract text returns and leaves the task.
fail_run_Returns(task_id, outcome) ==
    IF outcome = "raised" THEN on_exception(task_id, "PipelineError")
    ELSE IF outcome = "empty" THEN get_task(task_id)
         ELSE Handled(task_id, fail_task(task_id, Reason(outcome)))

\* What process_task does with a failure of its own run.
fail_run(task_id, outcome) ==
    IF outcome = "raised" THEN on_exception(task_id, "PipelineError")
    ELSE Handled(task_id, fail_task(task_id, Reason(outcome)))

\* A run between add_artifact and complete_task: no await in between
\* suspends, so nothing else runs until complete_task has returned.
Busy == \E k \in 1..Len(runs) : runs[k].pc = "completing"

\* One tasks/send request.
TasksSend(message, task_id, metadata) ==
    \E uuid \in (IF task_id = NoId THEN TaskIds \ DOMAIN tasks ELSE {NoId}) :
        LET r == handle_tasks_send(message, task_id, metadata, uuid) IN
        /\ Len(runs) < MaxRuns
        /\ WithLock(Caller)
        /\ Apply(r)
        /\ submitted' = Put(submitted, r.ret,
                            IF r.ret \in DOMAIN submitted
                            THEN Append(submitted[r.ret], message) ELSE <<message>>)
        /\ runs' = Append(runs, [id |-> r.ret, pc |-> "start", outcome |-> "None",
                                 raised |-> NoError])
        /\ UNCHANGED <<pc, subTask, yielded, expect>>

\* process_task from its start to its first suspension: update_status to
\* WORKING and get_task, or the handler when update_status raises.
RunStart(k) ==
    LET id == runs[k].id
        r == update_status(id, WORKING, NoMsg)
        h == Handled(id, r)
    IN
    /\ runs[k].pc = "start"
    /\ Call(id, h)
    /\ runs' = [runs EXCEPT ![k].pc = IF r.raised = NoError THEN "pipeline"
                                      ELSE "done",
                            ![k].raised = h.raised]

\* The parsing and the analysis are over: the run fails the task, or adds the
\* artifact of the analysis.
RunFinish(k, outcome) ==
    LET id == runs[k].id
        h == IF outcome \in Failures THEN fail_run(id, outcome)
             ELSE Handled(id, deliver(id, 1))
    IN
    /\ runs[k].pc = "pipeline"
    /\ Call(id, h)
    /\ runs' = [runs EXCEPT ![k].pc = IF outcome \in Failures THEN "done"
                                      ELSE "completing",
                            ![k].outcome = outcome,
                            ![k].raised = h.raised]

\* complete_task, or the handler when it raises.
RunComplete(k) ==
    LET id == runs[k].id
        h == Handled(id, deliver(id, 2))
    IN
    /\ runs[k].pc = "completing"
    /\ Call(id, h)
    /\ runs' = [runs EXCEPT ![k].pc = "done", ![k].raised = h.raised]

\* One tasks/cancel request.
TasksCancel(id) == Mutate(id, handle_jsonrpc("tasks/cancel", id).manager)

\* One submission: the message and the metadata a client sends together.
Requests == {<<"m1", "md1">>, <<"m2", NoMetadata>>}

\* The list_tasks calls: the default one and one with a filter and a limit.
Queries == {<<NoFilter, 100>>, <<WORKING, 1>>}

Methods == {"tasks/get", "tasks/cancel", "tasks/list"}

\* The calls of the clients and of the background runs on the manager.
StoreNext(R, A, I, Q, M, maxMessages, maxArtifacts) ==
    \/ \E rq \in R, id \in TaskIds \cup {NoId} :
          CreateTask(rq[1], id, rq[2], maxMessages)
    \/ \E id \in TaskIds : GetTask(id)
    \/ \E id \in TaskIds, s \in TaskState, m \in A \cup {NoMsg} :
          UpdateStatus(id, s, m, maxMessages)
    \/ \E id \in TaskIds, n \in ArtifactNames, i \in I :
          AddArtifact(id, Artifact(n, i), maxArtifacts)
    \/ \E id \in TaskIds : CancelTask(id, maxMessages)
    \/ \E id \in TaskIds, e \in Reasons : FailTask(id, e, maxMessages)
    \/ \E id \in TaskIds, m \in A \cup {NoMsg} : CompleteTask(id, m, maxMessages)
    \/ \E q \in Q : ListTasks(q[1], q[2])
    \/ \E method \in M, id \in TaskIds : HandleJsonrpc(method, id, maxMessages)

\* The steps of the subscribe() generators and of their consumers.
StreamNext ==
    \/ \E id \in Watched \cup (TaskIds \ DOMAIN tasks) : Subscribe(id)
    \/ \E c \in Chan : Anext(c)
    \/ \E c \in Chan : Wake(c)
    \/ \E c \in Chan : Aclose(c)

\* The manager with its subscribers, on one kind of submission.
Next ==
    \/ StoreNext({<<"m1", "md1">>}, {}, {5}, {<<NoFilter, 100>>}, {"tasks/cancel"},
                 StreamMessages, StreamArtifacts)
    \/ StreamNext

Spec == Init /\ [][Next]_vars

\* The store alone, with every kind of input.
StoreSpec ==
    Init /\ [][StoreNext(Requests, AgentMsgs, CallerIndex, Queries, Methods,
                         MaxMessages, MaxArtifacts)]_vars
\* The consumers keep consuming and the event loop resumes a generator whose
\* queue holds a result; no generator is closed early.
LiveNext ==
    \/ StoreNext({<<"m1", "md1">>}, {}, {5}, {<<NoFilter, 100>>}, {"tasks/cancel"},
                 StreamMessages, StreamArtifacts)
    \/ \E id \in Watched : Subscribe(id)
    \/ \E c \in Chan : Anext(c)
    \/ \E c \in Chan : Wake(c)

LiveSpec ==
    /\ Init
    /\ [][LiveNext]_vars
    /\ \A c \in Chan : WF_vars(Anext(c)) /\ WF_vars(Wake(c))

\* The manager with subscribers that may stop consuming.
AwayNext ==
    \/ Next
    \/ \E c \in Chan : WalkAway(c)

AwaySpec == Init /\ [][AwayNext]_vars

\* The application: tasks/send with its background runs, tasks/cancel and one
\* stream of the streaming endpoint at a time.
AppNext ==
    \/ \E id \in TaskIds \cup {NoId} : ~Busy /\ TasksSend("m1", id, "md1")
    \/ \E k \in 1..Len(runs) : ~Busy /\ RunStart(k)
    \/ \E k \in 1..Len(runs), outcome \in Outcomes : ~Busy /\ RunFinish(k, outcome)
    \/ \E k \in 1..Len(runs) : RunComplete(k)
    \/ \E id \in TaskIds : ~Busy /\ TasksCancel(id)
    \/ \E id \in Watched : ~Busy /\ Listening(id) = {} /\ Subscribe(id)
    \/ \E c \in Chan : ~Busy /\ Anext(c)
    \/ \E c \in Chan : ~Busy /\ Wake(c)
    \/ \E c \in Chan : ~Busy /\ Aclose(c)

AppSpec == Init /\ [][AppNext]_vars

\* The transition table and the terminal states as the specification gives them.
TransitionTable ==
    {<<SUBMITTED, WORKING>>, <<SUBMITTED, CANCELED>>, <<SUBMITTED, FAILED>>,
     <<WORKING, COMPLETED>>, <<WORKING, FAILED>>, <<WORKING, CANCELED>>,
     <<WORKING, INPUT_REQUIRED>>,
     <<INPUT_REQUIRED, WORKING>>, <<INPUT_REQUIRED, CANCELED>>,
     <<INPUT_REQUIRED, FAILED>>}

Terminal(state) == state \in {COMPLETED, FAILED, CANCELED}

StatusMessages == AgentMsgs \cup {NoMsg, CANCEL_MESSAGE}

\* C1: for every pair (from, to) of the transition table, update_status(id, to)
\* on an existing task in state `from` raises nothing and leaves the task in
\* state `to`.
C1_ValidTransitionSucceeds ==
    \A id \in DOMAIN tasks, to \in TaskState, m \in StatusMessages :
        <<tasks[id].status.state, to>> \in TransitionTable =>
            LET r == update_status(id, to, m) IN
            /\ r.raised = NoError
            /\ r.ret = id
            /\ r.tasks[id].status.state = to

\* A task that two successive transitions of the table have brought to
\* INPUT_REQUIRED.
C1_Witness ==
    \E id \in DOMAIN tasks : tasks[id].status.state = INPUT_REQUIRED

\* C2: for every pair (from, to) that is not in the transition table,
\* update_status on an existing task in state `from` raises
\* InvalidStateTransitionError and changes nothing: the tasks, their order, the
\* registry and every subscriber queue are as before.
C2_InvalidTransitionRejected ==
    \A id \in DOMAIN tasks, to \in TaskState, m \in StatusMessages :
        <<tasks[id].status.state, to>> \notin TransitionTable =>
            LET r == update_status(id, to, m) IN
            /\ r.raised = InvalidStateTransitionError
            /\ r.tasks = tasks
            /\ r.taskOrder = taskOrder
            /\ r.subscribers = subscribers
            /\ r.queue = queue

\* A completed task with a registered subscriber that still has a result queued.
C2_Witness ==
    \E c \in Chan :
        /\ Active(c)
        /\ queue[c] # <<>>
        /\ tasks[subTask[c]].status.state = COMPLETED

\* C3: once a task is COMPLETED, FAILED or CANCELED no step changes its state.
C3_TerminalAbsorbing ==
    [][\A id \in DOMAIN tasks :
          Terminal(tasks[id].status.state) =>
              /\ id \in DOMAIN tasks'
              /\ tasks'[id].status.state = tasks[id].status.state]_vars

\* A subscriber that registered on a terminal task and has since been given a
\* further result: calls were made on the task after it became terminal.
C3_Witness ==
    \E c \in Chan :
        /\ Active(c)
        /\ Terminal(yielded[c][1].status.state)
        /\ Len(yielded[c]) >= 2
        /\ Terminal(tasks[subTask[c]].status.state)

\* C4: for every registered subscriber, the results it was given after the
\* first one, followed by those still in its queue, are exactly the commits
\* made on its task since it registered, in commit order; nothing follows a
\* terminal result among those it was given, and every result is of its task.
C4_SnapshotsMatchCommits ==
    \A c \in Chan :
        Active(c) =>
            /\ Tail(yielded[c]) \o queue[c] = expect[c]
            /\ \A i \in 2..(Len(yielded[c]) - 1) :
                  ~Terminal(yielded[c][i].status.state)
            /\ \A i \in 1..Len(yielded[c]) : yielded[c][i].id = subTask[c]
            /\ \A i \in 1..Len(queue[c]) : queue[c][i].id = subTask[c]

\* Two subscribers of one task that were each given the first result and two
\* further ones, while the other task was created and moved on.
C4_Witness ==
    /\ \A c \in Chan : Active(c) /\ Len(yielded[c]) = 3 /\ subTask[c] = "t1"
    /\ "t2" \in DOMAIN tasks
    /\ tasks["t2"].status.state # SUBMITTED

\* C5: the first result of subscribe(id) is the task's status and artifacts at
\* registration and is yielded in the registration step.
C5_AtRegistration ==
    \A c \in Chan :
        (~Active(c) /\ Active(c)') =>
            /\ pc'[c] = "boot"
            /\ queue'[c] = <<>>
            /\ Len(yielded'[c]) = 1
            /\ yielded'[c][1].status = tasks[subTask'[c]].status
            /\ yielded'[c][1].artifacts = tasks[subTask'[c]].artifacts
            /\ tasks' = tasks

\* C5: it reflects every commit made before the registration (with no commit
\* since, it is the task as it is now) and none made after it (it is not the
\* first commit made since).
C5_NoGapNoOverlap ==
    \A c \in Chan :
        Active(c) =>
            LET first == yielded[c][1]
                task == tasks[subTask[c]]
            IN
            /\ expect[c] = <<>> =>
                  first.status = task.status /\ first.artifacts = task.artifacts
            /\ expect[c] # <<>> =>
                  \/ first.status # expect[c][1].status
                  \/ first.artifacts # expect[c][1].artifacts

\* C5: the first result yielded by subscribe(id) equals the task's status and
\* artifacts at the moment the channel was registered, without waiting for a
\* mutation, with neither a gap nor an overlap before the first queued result.
C5_BootstrapIsRegistrationState ==
    [][C5_AtRegistration]_vars /\ []C5_NoGapNoOverlap

\* A subscriber that registered on a working task with an artifact, and whose
\* task has been committed to since.
C5_Witness ==
    \E c \in Chan :
        /\ Active(c)
        /\ yielded[c][1].status.state = WORKING
        /\ Len(yielded[c][1].artifacts) = 1
        /\ expect[c] # <<>>

\* The subscribers C6 is about: registered while the task was not terminal.
EarlySubscriber(c) == Active(c) /\ ~Terminal(yielded[c][1].status.state)

\* C6: among the results an early subscriber was given, only the last can be
\* terminal.
C6_TerminalOnlyLast ==
    \A c \in Chan :
        EarlySubscriber(c) =>
            \A i \in 1..(Len(yielded[c]) - 1) : ~Terminal(yielded[c][i].status.state)

\* C6: when its stream ends, the last result it was given is terminal.
C6_EndsOnTerminal ==
    \A c \in Chan :
        (EarlySubscriber(c) /\ ~Active(c)') =>
            Terminal(yielded[c][Len(yielded[c])].status.state)

\* C6: a subscriber registered on a task that is not yet terminal and that keeps
\* consuming sees its stream end once the task is terminal; it is given exactly
\* one terminal result, and that is the last one.
C6_ExactlyOnceTerminal ==
    /\ []C6_TerminalOnlyLast
    /\ [][C6_EndsOnTerminal]_vars
    /\ \A c \in Chan :
          (EarlySubscriber(c) /\ Terminal(tasks[subTask[c]].status.state))
              ~> ~EarlySubscriber(c)

\* An early subscriber that was given a terminal result after the first one,
\* and whose queue holds a commit made after it.
C6_Witness ==
    \E c \in Chan :
        /\ EarlySubscriber(c)
        /\ Len(yielded[c]) = 2
        /\ Terminal(yielded[c][2].status.state)
        /\ queue[c] # <<>>

\* C7: subscribe(id) on a task that is already terminal yields the first result
\* and then ends: such a generator is only ever found suspended at its first
\* yield.
C7_TerminalBootstrapEnds ==
    \A c \in Chan :
        (Active(c) /\ Terminal(yielded[c][1].status.state)) => pc[c] = "boot"

IsUserMsg(m) == m \in {rq[1] : rq \in Requests}

UserPart(history) == SelectSeq(history, IsUserMsg)

\* C8: create_task with an id that is in the store returns that task with the
\* message appended to its history and changes nothing else (the metadata of
\* the call is ignored); after k calls with one id the history holds their k
\* messages in call order.
C8_ResubmissionAppends ==
    /\ \A id \in DOMAIN tasks, rq \in Requests :
          LET r == create_task(rq[1], id, rq[2], NoId) IN
          /\ r.raised = NoError
          /\ r.ret = id
          /\ DOMAIN r.tasks = DOMAIN tasks
          /\ r.tasks[id] = [tasks[id] EXCEPT !.history = Append(@, rq[1])]
          /\ \A other \in DOMAIN tasks \ {id} : r.tasks[other] = tasks[other]
          /\ r.taskOrder = taskOrder
          /\ r.subscribers = subscribers
          /\ r.queue = queue
    /\ \A id \in DOMAIN tasks :
          /\ tasks[id].id = id
          /\ UserPart(tasks[id].history) = submitted[id]

\* A task submitted twice with different messages and metadata, and moved on.
C8_Witness ==
    \E id \in DOMAIN tasks :
        /\ submitted[id] = <<"m1", "m2">>
        /\ tasks[id].history = <<"m1", "m2">>
        /\ tasks[id].metadata = "md1"
        /\ tasks[id].status.state = WORKING

\* C9: in every state artifacts[i].index = i (zero-based).
C9_IndexIsPosition ==
    \A id \in DOMAIN tasks :
        \A i \in 1..Len(tasks[id].artifacts) : tasks[id].artifacts[i].index = i - 1

\* C9: an artifact once appended is never removed, reordered or re-indexed.
C9_ArtifactsOnlyGrow ==
    \A id \in DOMAIN tasks :
        /\ id \in DOMAIN tasks'
        /\ Len(tasks'[id].artifacts) >= Len(tasks[id].artifacts)
        /\ SubSeq(tasks'[id].artifacts, 1, Len(tasks[id].artifacts)) = tasks[id].artifacts

C10_OneTaskPerId ==
    /\ DOMAIN tasks = DOMAIN submitted
    /\ Len(list_tasks(NoFilter, Cardinality(TaskIds))) = Cardinality(DOMAIN submitted)
    /\ \A id \in DOMAIN submitted :
          /\ get_task(id).raised = NoError
          /\ Cardinality({i \in 1..Len(taskOrder) : taskOrder[i] = id}) = 1
          /\ UserPart(tasks[id].history) = submitted[id]

\* Two tasks, one of them submitted twice.
C10_Witness ==
    /\ Cardinality(DOMAIN tasks) = 2
    /\ \E id \in DOMAIN submitted : Len(submitted[id]) = 2

\* The state of every stored task changes along an edge of the table or not at
\* all.
C11_Edge ==
    \A id \in DOMAIN tasks :
        /\ id \in DOMAIN tasks'
        /\ \/ tasks'[id].status.state = tasks[id].status.state
           \/ <<tasks[id].status.state, tasks'[id].status.state>> \in TransitionTable

\* create_task on an existing id, add_artifact and get_task leave the status
\* (state and message) of every task as it is.
C11_OthersKeepStatus ==
    \A id \in DOMAIN tasks :
        \A r \in {create_task(rq[1], id, rq[2], NoId) : rq \in Requests}
                \cup {add_artifact(id, Artifact(n, i)) :
                          n \in ArtifactNames, i \in CallerIndex}
                \cup {get_task(id)} :
            \A other \in DOMAIN tasks : r.tasks[other].status = tasks[other].status

\* C11: in every step, a task's state changes only along an edge of the
\* transition table; the calls other than update_status and its wrappers
\* (create_task on an existing id, add_artifact, get_task, list_tasks, subscribe)
\* never change it.
C11_OnlyTableEdges == [][C11_Edge]_vars /\ []C11_OthersKeepStatus

\* A subscriber that saw its task go from SUBMITTED to WORKING to INPUT_REQUIRED.
C11_Witness ==
    \E c \in Chan :
        /\ Active(c)
        /\ Len(yielded[c]) = 3
        /\ yielded[c][1].status.state = SUBMITTED
        /\ yielded[c][2].status.state = WORKING
        /\ yielded[c][3].status.state = INPUT_REQUIRED

\* The calls that take a task id, with every input of the model.
CallsOn(id) ==
    {get_task(id), cancel_task(id)}
    \cup {update_status(id, s, m) : s \in TaskState, m \in StatusMessages}
    \cup {fail_task(id, e) : e \in Reasons}
    \cup {complete_task(id, m) : m \in AgentMsgs \cup {NoMsg}}
    \cup {add_artifact(id, Artifact(n, i)) : n \in ArtifactNames, i \in CallerIndex}
    \cup {subscribe(id, c) : c \in Chan}

\* Every call on an id that is not in the store raises TaskNotFoundError (also
\* update_status, whatever the target state) and leaves the manager as it is.
C12_Raises ==
    \A id \in TaskIds \ DOMAIN tasks :
        \A r \in CallsOn(id) :
            /\ r.raised = TaskNotFoundError
            /\ r.tasks = tasks
            /\ r.taskOrder = taskOrder
            /\ r.subscribers = subscribers
            /\ r.queue = queue

\* A queue is only ever registered for a task of the store, and the registry
\* has no key that the store has not.
C12_NoChannel ==
    /\ \A c \in Chan : Active(c) => subTask[c] \in DOMAIN tasks
    /\ DOMAIN subscribers \subseteq DOMAIN tasks

\* C12: get_task, update_status, cancel_task, fail_task, complete_task,
\* add_artifact and subscribe, called with an id that was never created, raise
\* TaskNotFoundError and change neither the store nor the registry: no task is
\* created, no queue is registered, nothing is broadcast.
C12_UnknownIdRejected == C12_Raises /\ C12_NoChannel

\* One task with a subscriber that has a result queued, the other id never
\* created.
C12_Witness ==
    /\ DOMAIN tasks = {"t1"}
    /\ \E c \in Chan : Active(c) /\ queue[c] # <<>>

\* C13: create_task with an id that is not in the store, supplied or generated,
\* inserts one task in state SUBMITTED with history [message], no artifacts,
\* the metadata of the call ({} when omitted) and that id; no other task
\* changes.
C13_NewTask ==
    \A id \in TaskIds \ DOMAIN tasks, supplied \in BOOLEAN,
       rq \in Requests \cup {<<"m1", EmptyMetadata>>} :
        LET r == IF supplied THEN create_task(rq[1], id, rq[2], NoId)
                 ELSE create_task(rq[1], NoId, rq[2], id)
            new == [id |-> id,
                    status |-> [state |-> "submitted", message |-> NoMsg],
                    artifacts |-> <<>>,
                    history |-> <<rq[1]>>,
                    metadata |-> IF rq[2] = NoMetadata THEN "{}" ELSE rq[2]]
        IN
        /\ r.raised = NoError
        /\ r.ret = id
        /\ DOMAIN r.tasks = DOMAIN tasks \cup {id}
        /\ r.tasks[id] = new
        /\ \A other \in DOMAIN tasks : r.tasks[other] = tasks[other]
        /\ r.taskOrder = Append(taskOrder, id)
        /\ r.queue = queue

\* A task created without metadata that is as create_task made it, beside a
\* task that has moved on.
C13_Witness ==
    \E id \in DOMAIN tasks, other \in DOMAIN tasks :
        /\ tasks[id] = [id |-> id,
                        status |-> [state |-> "submitted", message |-> NoMsg],
                        artifacts |-> <<>>, history |-> <<"m2">>, metadata |-> "{}"]
        /\ tasks[other].status.state = WORKING
        /\ tasks[other].metadata = "md1"

\* C14: in every step the history of every task before the step is a prefix
\* of its history after the step.
C14_HistoryAppendOnly ==
    [][\A id \in DOMAIN tasks :
          /\ id \in DOMAIN tasks'
          /\ Len(tasks'[id].history) >= Len(tasks[id].history)
          /\ SubSeq(tasks'[id].history, 1, Len(tasks[id].history))
                = tasks[id].history]_vars

\* A history that a re-submission and a status message have both extended.
C14_Witness ==
    \E id \in DOMAIN tasks : tasks[id].history = <<"m1", "a1", "m2">>

\* C15: a mutating call never has to wait for a subscriber: in every state,
\* whatever the subscribers are doing (suspended at a yield, waiting for a
\* result, not reading at all), nobody holds the lock and no queue of the
\* registry is full, so the lock is acquired and every put returns at once.
C15_BroadcastNeverWaits ==
    /\ lock = Free
    /\ \A id \in DOMAIN tasks : CanPut(id)

\* Two subscribers of one task, one suspended at its first yield that has read
\* nothing of what was broadcast since, the other at a later yield, from where
\* its consumer may call cancel_task.
C15_Witness ==
    \E c \in Chan, d \in Chan :
        /\ pc[c] = "boot"
        /\ Len(queue[c]) = MaxQueue
        /\ pc[d] = "item"
        /\ subTask[d] = subTask[c]
        /\ ~Terminal(tasks[subTask[c]].status.state)

\* C16: in every state and for every id, cancel_task(id), fail_task(id, reason)
\* and complete_task(id, message) leave exactly what update_status leaves with
\* CANCELED and the standard cancel message, with FAILED and the message that
\* embeds the reason, and with COMPLETED and the message or none: the same
\* task, the same exception, the same queues.
C16_WrappersAreUpdateStatus ==
    \A id \in TaskIds :
        /\ cancel_task(id) = update_status(id, "canceled", "Task was canceled by request.")
        /\ \A e \in Reasons :
              fail_task(id, e) = update_status(id, "failed", "Task failed: " \o e)
        /\ \A m \in AgentMsgs \cup {NoMsg} :
              complete_task(id, m) = update_status(id, "completed", m)

\* A subscriber that was given the result of a cancel_task call, whose task is
\* now terminal, so that a further cancel is rejected.
C16_Witness ==
    \E c \in Chan :
        /\ Active(c)
        /\ Len(yielded[c]) >= 2
        /\ LastYielded(c).status =
              [state |-> CANCELED, message |-> "Task was canceled by request."]
        /\ cancel_task(subTask[c]).raised = InvalidStateTransitionError

\* The ids of the stored tasks that a filter selects, in the order of the store.
Matching(state) ==
    SelectSeq(taskOrder, LAMBDA id : state = NoFilter \/ tasks[id].status.state = state)

\* list_tasks(state, limit) is the longest prefix of at most `limit` of the
\* matching tasks; the store lists every task once.
C17_Listing ==
    /\ \A state \in TaskState \cup {NoFilter}, limit \in 0..3 :
          LET ret == list_tasks(state, limit) IN
          /\ Len(ret) <= limit
          /\ Len(ret) <= Len(Matching(state))
          /\ Len(ret) = limit \/ Len(ret) = Len(Matching(state))
          /\ ret = SubSeq(Matching(state), 1, Len(ret))
    /\ {taskOrder[i] : i \in 1..Len(taskOrder)} = DOMAIN tasks
    /\ Len(taskOrder) = Cardinality(DOMAIN tasks)

\* The order of the store changes only by a new id taking the last place.
C17_OrderKept ==
    \/ taskOrder' = taskOrder
    \/ \E id \in TaskIds \ DOMAIN tasks : taskOrder' = Append(taskOrder, id)

\* C17: list_tasks(state, limit), limit >= 0, returns in first-creation order
\* the first `limit` of the stored tasks in that state (of all tasks without a
\* filter): never more than `limit`, all of them when fewer match, nothing on
\* an empty store; a re-submission moves no task.
C17_ListTasks == []C17_Listing /\ [][C17_OrderKept]_vars

\* Two working tasks, the one created first submitted again since: a limit of
\* one cuts the list.
C17_Witness ==
    /\ taskOrder = <<"t2", "t1">>
    /\ Len(tasks["t2"].history) = 2
    /\ Len(submitted["t2"]) = 2
    /\ \A id \in DOMAIN tasks : tasks[id].status.state = WORKING

\* The metadata that goes with the first message of a task.
FirstMetadata(id) == IF submitted[id][1] = "m1" THEN "md1" ELSE "{}"

\* C18: in every state the metadata of a task is the metadata of the
\* create_task call that created it, and no step changes it.
C18_MetadataFixed ==
    /\ [](\A id \in DOMAIN tasks : tasks[id].metadata = FirstMetadata(id))
    /\ [][\A id \in DOMAIN tasks :
             id \in DOMAIN tasks' /\ tasks'[id].metadata = tasks[id].metadata]_vars

\* A task created without metadata, submitted again with metadata, that has
\* since worked and received an artifact.
C18_Witness ==
    \E id \in DOMAIN tasks :
        /\ submitted[id] = <<"m2", "m1">>
        /\ tasks[id].metadata = "{}"
        /\ tasks[id].status.state = WORKING
        /\ tasks[id].artifacts # <<>>

\* C19: tasks/get and tasks/cancel on an id that is not in the store are
\* answered with error code -32001, tasks/cancel on a task that cannot be
\* canceled with error code -32002; the answer has no result and the manager
\* is as before.  Every other request of the two methods is answered with a
\* result.
C19_ErrorCodes ==
    \A method \in {"tasks/get", "tasks/cancel"}, id \in TaskIds :
        LET response == handle_jsonrpc(method, id)
            unknown == id \notin DOMAIN tasks
            stuck == /\ ~unknown
                     /\ method = "tasks/cancel"
                     /\ <<tasks[id].status.state, CANCELED>> \notin TransitionTable
            kept == /\ response.result = <<>>
                    /\ response.manager.tasks = tasks
                    /\ response.manager.taskOrder = taskOrder
                    /\ response.manager.subscribers = subscribers
                    /\ response.manager.queue = queue
        IN
        /\ unknown => response.error = <<-32001>> /\ kept
        /\ stuck => response.error = <<-32002>> /\ kept
        /\ (~unknown /\ ~stuck) =>
              /\ response.error = <<>>
              /\ response.result = <<[id |-> id,
                                      state |-> IF method = "tasks/cancel"
                                                THEN CANCELED
                                                ELSE tasks[id].status.state]>>

\* A store with a canceled task and an id that was never created.
C19_Witness ==
    /\ DOMAIN tasks = {"t2"}
    /\ tasks["t2"].status = [state |-> CANCELED, message |-> CANCEL_MESSAGE]
    /\ tasks["t2"].artifacts # <<>>

\* C20: a successful update_status(id, to, message) leaves the task with the
\* status (to, message), with the message appended to the history when there
\* is one and the history as it was when there is none, and with the same
\* artifacts and metadata; no other task changes.
C20_StatusAndHistory ==
    \A id \in DOMAIN tasks, to \in TaskState, m \in StatusMessages :
        LET r == update_status(id, to, m)
            old == tasks[id]
        IN
        r.raised = NoError =>
            /\ <<old.status.state, to>> \in TransitionTable
            /\ r.tasks[id] =
                  [id |-> id,
                   status |-> [state |-> to, message |-> m],
                   history |-> IF m = NoMsg THEN old.history
                               ELSE old.history \o <<m>>,
                   artifacts |-> old.artifacts,
                   metadata |-> old.metadata]
            /\ \A other \in DOMAIN tasks \ {id} : r.tasks[other] = tasks[other]
            /\ DOMAIN r.tasks = DOMAIN tasks

\* A task with an artifact that asked for input with a message and went back
\* to work without one: the status message is gone, the history keeps it.
C20_Witness ==
    \E id \in DOMAIN tasks :
        /\ tasks[id].status = [state |-> WORKING, message |-> NoMsg]
        /\ tasks[id].history = <<"m1", "a1">>
        /\ tasks[id].artifacts # <<>>

\* C21: add_artifact on an existing task raises nothing in every task state;
\* the task gains exactly one artifact, placed last with its position as index,
\* and keeps its status, history and metadata; every other task is as before;
\* each queue registered for the task gains exactly one result, the task's
\* unchanged status with the new list of artifacts, and every other queue is
\* as before.
C21_AddArtifactFrame ==
    \A id \in DOMAIN tasks, n \in ArtifactNames, i \in CallerIndex :
        LET r == add_artifact(id, Artifact(n, i))
            old == tasks[id]
            grown == old.artifacts \o <<[name |-> n, index |-> Len(old.artifacts)]>>
        IN
        /\ r.raised = NoError
        /\ r.tasks = [tasks EXCEPT ![id] =
                          [id |-> id, status |-> old.status, history |-> old.history,
                           artifacts |-> grown, metadata |-> old.metadata]]
        /\ r.taskOrder = taskOrder
        /\ r.subscribers = subscribers
        /\ \A c \in Chan :
              r.queue[c] =
                 IF c \in Listening(id)
                 THEN queue[c] \o <<[id |-> id, status |-> old.status,
                                     artifacts |-> grown, metadata |-> old.metadata]>>
                 ELSE queue[c]

\* A task took an artifact after it had reached a terminal state while a
\* generator was registered for it: the generator's queue ends with the
\* terminal status and the artifact, behind the same status without it.
C21_Witness ==
    \E c \in Chan :
        /\ Active(c)
        /\ Len(queue[c]) >= 2
        /\ LET last == queue[c][Len(queue[c])]
               before == queue[c][Len(queue[c]) - 1]
           IN /\ last.status.state \in TerminalStates
              /\ before.status = last.status
              /\ before.artifacts = <<>>
              /\ last.artifacts # <<>>
              /\ tasks[subTask[c]].artifacts = last.artifacts

\* Every result a broadcast has put on the queue of a registered generator, in
\* order: the ones the generator has yielded after its first one, which came
\* from the store and not from the queue, and the ones still waiting.
Enqueued(c) == Tail(yielded[c]) \o queue[c]

\* C22: once a result with a terminal state has been put on a generator's
\* queue, no later broadcast puts anything on that queue: a terminal result
\* is the last one the queue ever received.
C22_NothingAfterTerminal ==
    \A c \in Chan :
        Active(c) =>
            \A k \in 1..Len(Enqueued(c)) :
                Enqueued(c)[k].status.state \in TerminalStates =>
                    k = Len(Enqueued(c))

\* How many times x is in a list.
Count(list, x) == Cardinality({k \in 1..Len(list) : list[k] = x})

\* The list without x, in the same order.
Without(list, x) == SelectSeq(list, LAMBDA y : y # x)

\* Every queue of the registry belongs to a generator that has not ended, and
\* the queue of every such generator is in the list of its task exactly once,
\* so that the list.remove of its finally block finds it.
C23_RegistryOfLive ==
    /\ \A id \in DOMAIN subscribers, c \in Chan :
          Count(subscribers[id], c) = IF c \in Listening(id) THEN 1 ELSE 0
    /\ \A c \in Chan : Active(c) => subTask[c] \in DOMAIN subscribers

\* The step that ends a generator takes its queue, and nothing else, out of
\* the registry; no other step takes a queue out.
C23_RemovesOwn ==
    /\ \A c \in Chan :
          (Active(c) /\ ~Active(c)') =>
              subscribers' = [subscribers EXCEPT ![subTask[c]] = Without(@, c)]
    /\ (\A c \in Chan : Active(c) => Active(c)') =>
          \A id \in DOMAIN subscribers :
              /\ id \in DOMAIN subscribers'
              /\ \A c \in Chan :
                    Count(subscribers'[id], c) >= Count(subscribers[id], c)

\* C23: when a generator ends, after a terminal result or because it was
\* closed, exactly its own queue leaves the list of its task, once, and the
\* queues of the other generators of the task stay; every queue in the
\* registry belongs to a generator that has not ended.
C23_Unsubscribe == []C23_RegistryOfLive /\ [][C23_RemovesOwn]_vars

\* Two generators were registered for a task; the first one has ended and the
\* second one is still registered, behind a queue that holds a result.
C23_Witness ==
    /\ pc[1] = "start"
    /\ Active(2)
    /\ subscribers[subTask[2]] = <<2>>
    /\ queue[2] # <<>>
    /\ yielded[2] # <<>>

\* The part of a task its readers are told about.
Published(task) == [status |-> task.status, artifacts |-> task.artifacts]

\* A step that writes the task map, a list of the registry or a queue of a
\* registered generator finds the lock free and leaves it free: its section
\* runs from acquire to release inside the step, with no other section
\* within it.
C25_WritesUnderLock ==
    (tasks' # tasks \/ subscribers' # subscribers) =>
        (lock = Free /\ lock' = Free)

\* A step that commits a change of a task's status or artifacts puts the
\* result of the changed task last on every queue registered for the task,
\* in the same step.
C25_CommitWithBroadcast ==
    \A id \in DOMAIN tasks :
        Published(tasks'[id]) # Published(tasks[id]) =>
            \A c \in Listening(id) :
                /\ queue'[c] = Append(queue[c], _task_to_result(tasks'[id]))
                /\ c \in Listening(id)'

C26_OneSlotPerTask ==
    /\ DOMAIN subscribers = DOMAIN tasks
    /\ \A id \in TaskIds :
          subscribe(id, 1).raised = NoError => id \in DOMAIN subscribers

\* No step takes an id out of the store or of the registry, an id that
\* get_task found is found after the step, and the step that stores a new
\* task gives it an empty list.
C26_IdsOnlyGrow ==
    /\ DOMAIN tasks \subseteq DOMAIN tasks'
    /\ DOMAIN subscribers \subseteq DOMAIN subscribers'
    /\ \A id \in TaskIds :
          get_task(id).raised = NoError => get_task(id)'.raised = NoError
    /\ \A id \in DOMAIN tasks' \ DOMAIN tasks : subscribers'[id] = <<>>

\* C26: in every reachable state the registry has an entry for exactly the
\* ids of the store, created empty in the step that creates the task; no
\* task and no entry is ever removed, so an id that was found once is found
\* ever after and subscribe never finds a task without an entry.
C26_RegistryKeys == []C26_OneSlotPerTask /\ [][C26_IdsOnlyGrow]_vars

\* Two tasks: one is canceled and its list is empty again after its generator
\* ended, the other one has a generator registered.
C26_Witness ==
    /\ DOMAIN tasks = TaskIds
    /\ \E id \in TaskIds :
          /\ subscribers[id] = <<>>
          /\ tasks[id].status.state = CANCELED
    /\ \E id \in TaskIds : subscribers[id] # <<>>

\* C24: the queue of a generator whose consumer has stopped consuming leaves
\* the registry at the next broadcast on its task: the step that commits a
\* change of the task's status or artifacts leaves the abandoned queue out of
\* the task's list.
C24_AbandonedPruned ==
    [][\A c \in Chan :
          (/\ pc[c] = "away"
           /\ Published(tasks'[subTask[c]]) # Published(tasks[subTask[c]]))
          => Count(subscribers'[subTask[c]], c) = 0]_vars

\* The reason a failed run gives, as the client reads it.
FailureReason(outcome) ==
    CASE outcome = "parse_error" -> "Failed to parse uploaded file: str(e)"
      [] outcome = "empty" -> "No contract text provided"
      [] outcome = "failed" -> "Analysis failed"
      [] outcome = "raised" -> "str(PipelineError)"

FailedWith(outcome) ==
    [state |-> FAILED, message |-> "Task failed: " \o FailureReason(outcome)]

FirstRun(k) == \A l \in 1..(k - 1) : runs[l].id # runs[k].id
LaterRun(k) == ~FirstRun(k)

\* No step of a run of a later submission changes the status of a task that
\* is SUBMITTED or WORKING.
C28_LaterRunKeepsStatus ==
    \A k \in 1..Len(runs) :
        (/\ LaterRun(k)
         /\ runs'[k] # runs[k]
         /\ tasks[runs[k].id].status.state \in {SUBMITTED, WORKING})
        => tasks'[runs[k].id].status = tasks[runs[k].id].status

\* The run of the first submission, once over on a task nobody canceled, has
\* left the task as its own analysis dictates.
C28_FirstRunDecides ==
    \A k \in 1..Len(runs) :
        (/\ FirstRun(k)
         /\ runs[k].pc = "done"
         /\ tasks[runs[k].id].status.state # CANCELED)
        => /\ runs[k].outcome = "success" =>
                 tasks[runs[k].id].status.state = COMPLETED
           /\ runs[k].outcome \in Failures =>
                 tasks[runs[k].id].status = FailedWith(runs[k].outcome)
           /\ runs[k].outcome # "None"

\* C28: a tasks/send for an id whose task exists only appends the message to
\* the history: neither it nor the run it schedules changes the status of a
\* task that is SUBMITTED or WORKING, and the run of the first submission
\* ends in the outcome that its own analysis dictates.
C28_ResendOnlyAppends ==
    [][C28_LaterRunKeepsStatus]_vars /\ []C28_FirstRunDecides

\* C29: once a process_task run is over, by a return or by an exception, its
\* task is COMPLETED, FAILED or CANCELED, whatever tasks/cancel requests and
\* other runs on the same task came in between.
C29_RunEndsTerminal ==
    \A k \in 1..Len(runs) :
        runs[k].pc = "done" =>
            /\ runs[k].id \in DOMAIN tasks
            /\ tasks[runs[k].id].status.state \in {COMPLETED, FAILED, CANCELED}
            /\ runs[k].raised \in {NoError, InvalidStateTransitionError}

\* Two runs on one task that a client canceled while the first one was in
\* its analysis: both are over and both raised, the first one after it had
\* added its artifact.
C29_Witness ==
    \E k, l \in 1..Len(runs) :
        /\ k < l
        /\ runs[k].id = runs[l].id
        /\ runs[k].pc = "done" /\ runs[l].pc = "done"
        /\ runs[k].outcome = "success"
        /\ runs[k].raised = InvalidStateTransitionError
        /\ runs[l].raised = InvalidStateTransitionError
        /\ tasks[runs[k].id].status.state = CANCELED
        /\ tasks[runs[k].id].artifacts # <<>>

\* The results of a run that nothing interfered with, for a reader that was
\* registered while the task was SUBMITTED.
Seen(id, metadata) ==
    LET result(state, message, artifacts) ==
            [id |-> id, status |-> [state |-> state, message |-> message],
             artifacts |-> artifacts, metadata |-> metadata]
        analysis == <<[name |-> "contract_analysis", index |-> 0]>>
    IN <<result(SUBMITTED, NoMsg, <<>>),
         result(WORKING, NoMsg, <<>>),
         result(WORKING, NoMsg, analysis),
         result(COMPLETED, "analysis.summary", analysis)>>

\* The only run of a task has completed it: nothing else acted on the task.
Undisturbed(id) ==
    /\ tasks[id].status.state = COMPLETED
    /\ Cardinality({k \in 1..Len(runs) : runs[k].id = id}) = 1

\* C30: when the analysis of a run succeeds and no other call interferes, the
\* artifact is added while the task is WORKING and before it is COMPLETED: a
\* generator registered while the task was SUBMITTED is given, in this order,
\* SUBMITTED, WORKING, WORKING with the artifact and COMPLETED with the
\* artifact; and every task that process_task has completed has an artifact.
C30_ArtifactBeforeCompleted ==
    /\ \A c \in Chan :
          (/\ Active(c)
           /\ yielded[c][1].status.state = SUBMITTED
           /\ Undisturbed(subTask[c]))
          => yielded[c] \o queue[c] = Seen(subTask[c], tasks[subTask[c]].metadata)
    /\ \A id \in DOMAIN tasks :
          tasks[id].status.state = COMPLETED => Len(tasks[id].artifacts) >= 1

\* The generator of such a task has yielded all four results and has not
\* been resumed yet.
C30_Witness ==
    \E c \in Chan :
        /\ pc[c] = "item"
        /\ Undisturbed(subTask[c])
        /\ Len(yielded[c]) = 4
        /\ yielded[c][1].status.state = SUBMITTED
        /\ yielded[c][4].status.state = COMPLETED
        /\ queue[c] = <<>>
====
